---- MODULE Spec2Model ----
(***************************************************************************)
(* Model of the Netskope event collector:                                  *)
(*   NetskopeClient.fetch_events  (netskope_client.py) - a generator that  *)
(*       polls a paginated endpoint and yields event records;              *)
(*   S3Writer.write_events        (s3_writer.py) - a multipart uploader    *)
(*       that consumes an iterator of records;                             *)
(*   run                          (runner.py) - write_events(fetch_events).*)
(*                                                                         *)
(* fetch_events is a Python generator: its body runs only while a consumer *)
(* is inside next().  ctl says who is running, gpc is the position of the  *)
(* generator frame.  Spec drives the generator with list(); SpecRun drives *)
(* it with write_events, as run() does.  SpecCalls makes several           *)
(* fetch_events calls on one client, SpecWrites several write_events calls *)
(* on one writer, each fed by a plain iterator, and SpecCrc calls          *)
(* _crc32_base64 on its own.  PART_SIZE is the module global the cut of a   *)
(* part is tested against: 8 MiB as shipped, or a value set by a test.     *)
(*                                                                         *)
(* trace is the log of everything observable from outside, in order: HTTP  *)
(* requests with their outcome, sleeps, records yielded, storage calls.    *)
(* It is written by the actions; the properties read it, and so do the     *)
(* caps of the model and the storage's completed flag.                     *)
(***************************************************************************)
EXTENDS Integers, Sequences, FiniteSets, TLC

(* ------------------------------ bounds --------------------------------- *)
\* HTTP requests one fetch_events call may issue in the model (list consumer)
MaxRequests == 3
\* HTTP requests one fetch_events call may issue in the composed pipeline
MaxRunRequests == 2
\* records in one page's result array (list consumer)
MaxPageLen == 2
\* records in one page's result array in the composed pipeline, and when
\* several fetch_events calls are made
MaxRunPageLen == 1
\* 429 answers of a server that rate-limits only finitely often
Max429 == 1
\* instants of the clock within one second
TicksPerSecond == 2
\* largest configured max_fetch_pages
MaxPagesCfg == 3

\* configured max_fetch_duration_seconds values
Durations == {0, 1, 3}
\* wait_time values a page may carry
WaitTimes == {0, 2}
\* wait_time values a page may carry in the composed pipeline
RunWaitTimes == {0}
\* Retry-After header values of a 429 (when the header is present)
RetryAfters == {0, 1}
\* seconds the clock may advance between two readings, besides sleeps
Latencies == {0, 1}
\* error statuses other than 429
ErrorStatuses == {404, 500}
\* caller-supplied start of the window, epoch seconds
Sinces == {1700000000}
\* categories asked for; "nope" is not a key of the path map
Endpoints == {"application", "nope"}

(* ------------------------- program constants --------------------------- *)
\* config.py: _DEFAULT_ENDPOINT_PATHS keys
EndpointPathKeys == {"application", "network", "page", "alert", "audit"}
\* netskope_client.py: resp.headers.get("Retry-After", 5)
DefaultRetryAfter == 5
\* config.py: netskope_iterator_index default
Index == "default"

VARIABLES
    endpoint,               \* category passed to fetch_events / run
    since,                  \* start timestamp passed to fetch_events
    max_pages,              \* settings.max_fetch_pages
    max_duration_seconds,   \* settings.max_fetch_duration_seconds
    ctl,                    \* "gen": generator frame running; "consumer"
    gpc,                    \* generator position
    gerr,                   \* exception raised out of the generator
    stop,                   \* which break ended the while loop
    params,                 \* local params of fetch_events
    page_count,             \* local page_count
    elapsed,                \* local elapsed (whole seconds)
    events,                 \* local events: result of the current page
    wait_time,              \* local wait_time
    pos,                    \* index in events of the next record to yield
    clock,                  \* time.time() - start_time, whole seconds
    nextId,                 \* server: id of the next record it serves
    trace,                  \* observable log
    wpc,                    \* position of write_events ("none": no writer)
    upload_id,              \* local upload_id (0: no session yet)
    parts,                  \* local parts
    part_no,                \* local part_no
    buf,                    \* bytes written to the current gzip stream
    bufSize,                \* buf.tell()
    PART_SIZE,              \* the module global PART_SIZE of s3_writer.py
    wexc,                   \* exception caught by except Exception
    raised,                 \* exception that left write_events / run
    returned                \* TRUE once write_events returned the key

fvars == <<endpoint, since, max_pages, max_duration_seconds, ctl, gpc, gerr,
           stop, params, page_count, elapsed, events, wait_time, pos, clock,
           nextId, trace>>
wvars == <<wpc, upload_id, parts, part_no, buf, bufSize, PART_SIZE, wexc, raised,
           returned>>
vars == <<fvars, wvars>>

(* ------------------------------ helpers -------------------------------- *)
Append2(s, a, b) == Append(Append(s, a), b)

\* the events of kind k of a log, in order
OfKind(log, k) == SelectSeq(log, LAMBDA e : e.k = k)

RECURSIVE Flatten(_)
\* concatenation of a sequence of sequences
Flatten(ss) == IF ss = <<>> THEN <<>> ELSE Head(ss) \o Flatten(Tail(ss))

\* <<f, f+1, ..., f+n-1>>
Ids(f, n) == [i \in 1..n |-> f + i - 1]

(* --------------------------- the remote API ---------------------------- *)
\* A 200 page serves n fresh records (the server numbers the records it
\* serves, so a lost, duplicated or reordered record shows) and a wait_time.
Page(first, n, w) ==
    [status |-> 200, result |-> Ids(first, n), wait_time |-> w,
     has_retry_after |-> FALSE, retry_after |-> 0]

\* A 429 with or without a Retry-After header; its body too holds a record
\* the client must not yield.
RateLimited(first, has, secs) ==
    [status |-> 429, result |-> Ids(first, 1), wait_time |-> 0,
     has_retry_after |-> has, retry_after |-> secs]

\* Another error status; its body holds a record the client must not yield.
ErrorResponse(first, st) ==
    [status |-> st, result |-> Ids(first, 1), wait_time |-> 0,
     has_retry_after |-> FALSE, retry_after |-> 0]

\* the log opens with the server's promise to answer 429 at most so often
FewRateLimits == trace # <<>> /\ trace[1].k = "server"
\* the server may still answer 429
MayRateLimit ==
    FewRateLimits =>
        Len(SelectSeq(trace, LAMBDA e : e.k = "get" /\ e.out = "response"
                                          /\ e.resp.status = 429))
          < trace[1].max429

\* the model's cap on the length of a result array
PageLenLimit ==
    IF wpc = "none" /\ (trace = <<>> \/ trace[1].k \notin {"call", "server"})
      THEN MaxPageLen ELSE MaxRunPageLen

\* the wait_time values the server uses
WaitTimeChoices == IF wpc = "none" THEN WaitTimes ELSE RunWaitTimes

\* what the server may answer when its next fresh record id is first
Responses(first) ==
    {Page(first, n, w) : n \in 0..PageLenLimit, w \in WaitTimeChoices}
    \cup (IF MayRateLimit
            THEN {RateLimited(first, TRUE, s) : s \in RetryAfters}
                   \cup {RateLimited(first, FALSE, 0)}
            ELSE {})
    \cup {ErrorResponse(first, st) : st \in ErrorStatuses}

(* ------------------------ NetskopeClient.fetch_events ------------------ *)
\* mutant: the path lookup never misses
PathIsNone_Never(e) == FALSE

\* path = self.settings.endpoint_paths.get(endpoint); path is None
PathIsNone(e) == e \notin EndpointPathKeys

\* mutant: a call starts from the server-side cursor, not from its timestamp
InitialParams_Continues(ts) ==
    [operation |-> [mode |-> "next", ts |-> 0], index |-> Index]

\* params of the first request
InitialParams(ts) ==
    [operation |-> [mode |-> "timestamp", ts |-> ts], index |-> Index]

\* mutant: the continuation request names another iterator index
NextParams_OtherIndex == [operation |-> [mode |-> "next", ts |-> 0], index |-> "other"]

\* params = {"operation": "next", "index": self.index}
NextParams == [operation |-> [mode |-> "next", ts |-> 0], index |-> Index]

\* resp.status_code == 429
IsRateLimit(r) == r.status = 429

\* mutant: the Retry-After header is ignored
RetryAfterOf_IgnoresHeader(r) == DefaultRetryAfter

\* retry_after = int(resp.headers.get("Retry-After", 5))
RetryAfterOf(r) == IF r.has_retry_after THEN r.retry_after ELSE DefaultRetryAfter

\* mutant: the 429 branch gives up once the time budget is spent
AfterRateLimit_ChecksBudget(el, maxd) ==
    IF el >= maxd THEN [gpc |-> "done", stop |-> "duration", ctl |-> "consumer"]
                  ELSE [gpc |-> "request", stop |-> "none", ctl |-> "gen"]

\* time.sleep(retry_after); continue: back to the top of while True, whatever
\* the time since start_time (el) and the budget (maxd) are
AfterRateLimit(el, maxd) == [gpc |-> "request", stop |-> "none", ctl |-> "gen"]

\* mutant: the 429 branch counts as a page
PageCountAfter429_Counted(pc) == pc + 1

\* page_count is left alone by the 429 branch (continue)
PageCountAfter429(pc) == pc

\* mutant: only server errors raise
RaisesForStatus_5xxOnly(r) == r.status >= 500 /\ r.status < 600

\* resp.raise_for_status() raises for 4xx and 5xx
RaisesForStatus(r) == r.status >= 400 /\ r.status < 600

\* mutant: the first record of a page is dropped
EventsOf_DropFirst(r) == IF r.result = <<>> THEN <<>> ELSE Tail(r.result)

\* events = body.get("result", [])
EventsOf(r) == r.result

\* wait_time = int(body.get("wait_time", 0))
WaitTimeOf(r) == r.wait_time

\* mutant: the transport failure is re-raised instead of swallowed
TransportFailureOutcome_Raise ==
    [gpc |-> "raised", gerr |-> "RequestException", stop |-> "none"]

\* except requests.RequestException: log and break
TransportFailureOutcome == [gpc |-> "done", gerr |-> "none", stop |-> "transport"]

\* mutant: the page budget is compared with > instead of >=
StopAfterPage_PagesStrict(evs, wt, pc, el, maxp, maxd) ==
    IF evs = <<>> /\ wt = 0 THEN "natural"
    ELSE IF pc > maxp THEN "pages"
    ELSE IF el >= maxd THEN "duration"
    ELSE "none"

\* mutant: the time budget is compared with > instead of >=
StopAfterPage_DurationStrict(evs, wt, pc, el, maxp, maxd) ==
    IF evs = <<>> /\ wt = 0 THEN "natural"
    ELSE IF pc >= maxp THEN "pages"
    ELSE IF el > maxd THEN "duration"
    ELSE "none"

\* mutant: the budgets are checked before the natural end
StopAfterPage_BudgetsFirst(evs, wt, pc, el, maxp, maxd) ==
    IF pc >= maxp THEN "pages"
    ELSE IF el >= maxd THEN "duration"
    ELSE IF evs = <<>> /\ wt = 0 THEN "natural"
    ELSE "none"

\* mutant: an empty result ends the fetch whatever wait_time says
StopAfterPage_EmptyEnds(evs, wt, pc, el, maxp, maxd) ==
    IF evs = <<>> THEN "natural"
    ELSE IF pc >= maxp THEN "pages"
    ELSE IF el >= maxd THEN "duration"
    ELSE "none"

\* mutant: the page budget is never looked at
StopAfterPage_NoPageBudget(evs, wt, pc, el, maxp, maxd) ==
    IF evs = <<>> /\ wt = 0 THEN "natural"
    ELSE IF el >= maxd THEN "duration"
    ELSE "none"

\* the three break conditions after a page, in the code's order
StopAfterPage(evs, wt, pc, el, maxp, maxd) ==
    IF evs = <<>> /\ wt = 0 THEN "natural"
    ELSE IF pc >= maxp THEN "pages"
    ELSE IF el >= maxd THEN "duration"
    ELSE "none"

\* requests issued so far
NumGets == Len(OfKind(trace, "get"))

\* the model's cap on requests; against a server that rate-limits finitely
\* often the cap is what the page budget and the 429s add up to, so that a
\* fetch that went on beyond its budget would be stopped by the cap and not
\* by the code
ReqLimit ==
    IF wpc # "none" THEN MaxRunRequests
    ELSE IF FewRateLimits
      THEN (IF max_pages >= 1 THEN max_pages ELSE 1) + trace[1].max429
    ELSE MaxRequests

\* first next(): the frame runs from the top of the body to the while loop
GenStart ==
    /\ UNCHANGED wvars
    /\ ctl = "gen" /\ gpc = "created"
    /\ IF PathIsNone(endpoint)
         THEN /\ gpc' = "raised" /\ gerr' = "ValueError" /\ ctl' = "consumer"
              /\ UNCHANGED <<params, page_count, clock>>
         ELSE /\ params' = InitialParams(since)
              /\ clock' = 0
              /\ page_count' = 0
              /\ gpc' = "request"
              /\ UNCHANGED <<gerr, ctl>>
    /\ UNCHANGED <<endpoint, since, max_pages, max_duration_seconds, stop,
                   elapsed, events, wait_time, pos, nextId, trace>>

\* session.get raises requests.RequestException
GenGetFails ==
    /\ UNCHANGED wvars
    /\ ctl = "gen" /\ gpc = "request" /\ NumGets < ReqLimit
    /\ trace' = Append(trace, [k |-> "get", params |-> params, out |-> "exception"])
    /\ gpc' = TransportFailureOutcome.gpc
    /\ gerr' = TransportFailureOutcome.gerr
    /\ stop' = TransportFailureOutcome.stop
    /\ ctl' = "consumer"
    /\ UNCHANGED <<endpoint, since, max_pages, max_duration_seconds, params,
                   page_count, elapsed, events, wait_time, pos, clock, nextId>>

\* session.get returns r: the code up to (not including) yield from events
GenGet ==
    /\ UNCHANGED wvars
    /\ ctl = "gen" /\ gpc = "request" /\ NumGets < ReqLimit
    /\ \E r \in Responses(nextId) :
         LET got == [k |-> "get", params |-> params, out |-> "response", resp |-> r]
         IN
         /\ nextId' = nextId + Len(r.result)
         /\ IF IsRateLimit(r)
              THEN /\ trace' = Append2(trace, got,
                                  [k |-> "sleep", why |-> "429", secs |-> RetryAfterOf(r)])
                   /\ clock' = clock + RetryAfterOf(r)
                   /\ page_count' = PageCountAfter429(page_count)
                   /\ gpc' = AfterRateLimit(clock', max_duration_seconds).gpc
                   /\ stop' = AfterRateLimit(clock', max_duration_seconds).stop
                   /\ ctl' = AfterRateLimit(clock', max_duration_seconds).ctl
                   /\ UNCHANGED <<gerr, events, wait_time, pos>>
              ELSE IF RaisesForStatus(r)
              THEN /\ trace' = Append(trace, got)
                   /\ gpc' = "raised" /\ gerr' = "HTTPError" /\ ctl' = "consumer"
                   /\ UNCHANGED <<clock, page_count, events, wait_time, pos, stop>>
              ELSE /\ trace' = Append(trace, got)
                   /\ events' = EventsOf(r)
                   /\ wait_time' = WaitTimeOf(r)
                   /\ pos' = 1
                   /\ gpc' = "yielding"
                   /\ UNCHANGED <<clock, page_count, gerr, ctl, stop>>
    /\ UNCHANGED <<endpoint, since, max_pages, max_duration_seconds,
                   params, elapsed>>

\* yield from events: hand the next record to the consumer and suspend
GenYield ==
    /\ UNCHANGED wvars
    /\ ctl = "gen" /\ gpc = "yielding" /\ pos <= Len(events)
    /\ trace' = Append(trace, [k |-> "yield", rec |-> events[pos]])
    /\ pos' = pos + 1
    /\ ctl' = "consumer"
    /\ UNCHANGED <<endpoint, since, max_pages, max_duration_seconds, gpc, gerr,
                   stop, params, page_count, elapsed, events, wait_time, clock,
                   nextId>>

\* mutant: the frame runs on past yield from with records still to hand over
YieldFromReturned_Eager(p, evs) == TRUE

\* yield from events returns when the page's last record has been taken
YieldFromReturned(p, evs) == p > Len(evs)

\* after yield from: count the page, read the clock, break or pace and go on
GenAfterPage ==
    /\ UNCHANGED wvars
    /\ ctl = "gen" /\ gpc = "yielding" /\ YieldFromReturned(pos, events)
    /\ \E d \in Latencies :
         LET pc == page_count + 1
             el == clock + d
             why == StopAfterPage(events, wait_time, pc, el, max_pages,
                                  max_duration_seconds)
         IN
         /\ page_count' = pc
         /\ elapsed' = el
         /\ IF why # "none"
              THEN /\ stop' = why /\ gpc' = "done" /\ ctl' = "consumer"
                   /\ clock' = el
                   /\ UNCHANGED <<params, trace>>
              ELSE /\ IF wait_time > 0
                        THEN /\ trace' = Append(trace, [k |-> "sleep", why |-> "wait_time",
                                                        secs |-> wait_time])
                             /\ clock' = el + wait_time
                        ELSE /\ clock' = el
                             /\ UNCHANGED trace
                   /\ params' = NextParams
                   /\ gpc' = "request"
                   /\ UNCHANGED <<stop, ctl>>
    /\ UNCHANGED <<endpoint, since, max_pages, max_duration_seconds, gerr,
                   events, wait_time, pos, nextId>>

(* ------------------------------ list(...) ------------------------------ *)
\* list(client.fetch_events(...)): take the record and call next() again
ListNext ==
    /\ UNCHANGED wvars
    /\ wpc = "none" /\ ctl = "consumer" /\ gpc = "yielding"
    /\ ctl' = "gen"
    /\ UNCHANGED <<endpoint, since, max_pages, max_duration_seconds, gpc, gerr,
                   stop, params, page_count, elapsed, events, wait_time, pos,
                   clock, nextId, trace>>

(* ------------------------- S3Writer.write_events ----------------------- *)
\* s3_writer.py: PART_SIZE = 8 * 1024 * 1024, the value the module is
\* loaded with
ShippedPartSize == 8 * 1024 * 1024
\* bytes in the buffer after gzip.GzipFile(fileobj=buf, mode="wb"): the header
GzipHeaderLen == 10
\* values the module global is set to before write_events is called, as the
\* tests do (monkeypatch.setattr(sw, "PART_SIZE", ...)): a threshold the
\* header of an empty stream already reaches, and the least it does not
PatchedPartSizes == {GzipHeaderLen, GzipHeaderLen + 1}
\* the values of PART_SIZE a call may find
PartSizes == {ShippedPartSize} \cup PatchedPartSizes
\* bytes of the gzip trailer gz.close() writes last: CRC-32 and length
GzipTrailerLen == 8
\* symbols the compressor buffers before it closes a block and emits it; a
\* symbol stands for one byte of input or more
BlockSymbols == 16383
\* buf.tell() after gz.write(line), for buf.tell() before it and the bytes
\* written to the stream so far, the line included: nothing is emitted while
\* fewer bytes than a block has symbols were written; beyond, the output so
\* far is at most the stored form of the input (5 bytes a block more)
TellsAfterWrite(tell, payload) ==
    IF Len(payload) < BlockSymbols THEN {tell}
    ELSE tell..(GzipHeaderLen + Len(payload) + 5 * (Len(payload) \div BlockSymbols))
\* least bytes gz.close() writes before the trailer: the empty final block
\* (3 header bits and 7 end-of-block bits)
MinDeflateTail == 2
\* no rest of the compressor at gz.close() is longer: gz.write hands every
\* line to the compressor and writes all the output it returns, so at close
\* the compressor holds at most the symbols of an unfinished block and 261
\* bytes not yet looked at, and no symbol takes more than 31 bits (a match
\* in the fixed table: 13 for the length, 18 for the distance)
MaxDeflateTail == 65536
\* longest payload that was found to leave as one fixed-Huffman block of
\* literals whatever its bytes (the dynamic table pays off beyond it)
FixedBlockMost == 12
\* no three bytes occur twice in data: the compressor finds no match
NoRepeat(data) ==
    \A i, j \in 1..(Len(data) - 2) :
        i < j => SubSeq(data, i, i + 2) # SubSeq(data, j, j + 2)
\* data leaves the compressor as literals of 8 bits each
PlainLiterals(data) ==
    /\ Len(data) <= FixedBlockMost
    /\ \A i \in 1..Len(data) : data[i] < 144
    /\ NoRepeat(data)
\* bytes gz.close() writes before the trailer: what the compressor still
\* holds.  While buf.tell() is still at the header nothing was emitted and
\* the whole payload leaves in one block: of plain literals in the fixed
\* table (3 header bits, 8 bits a byte, 7 end-of-block bits: a byte each and
\* two more), else anything from the empty block to the stored block (the
\* payload and 5 bytes).  Once output was emitted the rest is some length
\* from the least to the longest
DeflateTails(tell, payload) ==
    IF tell # GzipHeaderLen THEN MinDeflateTail..MaxDeflateTail
    ELSE IF PlainLiterals(payload) THEN {Len(payload) + 2}
    ELSE MinDeflateTail..(Len(payload) + 5)
\* len(buf.getvalue()) after gz.close(), for buf.tell() before it
SizeAtClose(tell, tail) == tell + tail + GzipTrailerLen

\* what the steps of write_events leave alone: fvars without ctl and trace,
\* and the module global
FetchFrame == <<endpoint, since, max_pages, max_duration_seconds, gpc, gerr,
                stop, params, page_count, elapsed, events, wait_time, pos,
                clock, nextId, PART_SIZE>>

\* the record the generator handed over at its last yield
Delivered == events[pos - 1]

\* mutant: the threshold itself does not yet fill a part
PartIsFull_Strict(size) == size > PART_SIZE

\* mutant: a part is cut at half the threshold
PartIsFull_Half(size) == size >= PART_SIZE \div 2

\* if buf.tell() >= PART_SIZE
PartIsFull(size) == size >= PART_SIZE

(* ------------------------------ _crc32_base64 -------------------------- *)
\* A 32-bit value is held as two 16-bit halves: [hi, lo] stands for
\* hi * 2^16 + lo.  Bytes are integers 0..255.
RECURSIVE Xor(_, _)
\* bitwise exclusive or of two naturals
Xor(a, b) ==
    IF a = 0 THEN b ELSE IF b = 0 THEN a
    ELSE ((a + b) % 2) + 2 * Xor(a \div 2, b \div 2)
Xor32(a, b) == [hi |-> Xor(a.hi, b.hi), lo |-> Xor(a.lo, b.lo)]
ShiftRight1(c) == [hi |-> c.hi \div 2, lo |-> (c.lo \div 2) + (c.hi % 2) * 32768]
ShiftRight8(c) == [hi |-> c.hi \div 256, lo |-> (c.lo \div 256) + (c.hi % 256) * 256]
Ones32 == [hi |-> 65535, lo |-> 65535]

RECURSIVE CrcShift(_, _)
\* n steps of the reflected CRC-32 register, polynomial EDB88320 (hex)
CrcShift(c, n) ==
    IF n = 0 THEN c
    ELSE CrcShift(IF c.lo % 2 = 1
                    THEN Xor32(ShiftRight1(c), [hi |-> 60856, lo |-> 33568])
                    ELSE ShiftRight1(c),
                  n - 1)

\* zlib's byte-wise table
CrcTable == [b \in 0..255 |-> CrcShift([hi |-> 0, lo |-> b], 8)]

RECURSIVE CrcUpdate(_, _)
CrcUpdate(c, data) ==
    IF data = <<>> THEN c
    ELSE CrcUpdate(Xor32(CrcTable[Xor(c.lo % 256, Head(data))], ShiftRight8(c)),
                   Tail(data))

\* zlib.crc32(data)
Crc32(data) == Xor32(CrcUpdate(Ones32, data), Ones32)

\* crc_val & 0xFFFFFFFF
Mask32(c) == [hi |-> c.hi % 65536, lo |-> c.lo % 65536]

\* mutant: the four bytes least significant first
ToBytes4Big_Little(c) == <<c.lo % 256, c.lo \div 256, c.hi % 256, c.hi \div 256>>

\* crc_val.to_bytes(4, "big")
ToBytes4Big(c) == <<c.hi \div 256, c.hi % 256, c.lo \div 256, c.lo % 256>>

B64Alphabet ==
    <<"A","B","C","D","E","F","G","H","I","J","K","L","M","N","O","P","Q","R",
      "S","T","U","V","W","X","Y","Z","a","b","c","d","e","f","g","h","i","j",
      "k","l","m","n","o","p","q","r","s","t","u","v","w","x","y","z","0","1",
      "2","3","4","5","6","7","8","9","+","/">>
B64Char(n) == B64Alphabet[n + 1]

RECURSIVE B64Encode(_)
\* base64.b64encode(bytes).decode(): three bytes give four characters, a
\* shorter last group is padded with "="
B64Encode(bs) ==
    IF bs = <<>> THEN ""
    ELSE IF Len(bs) = 1
      THEN B64Char(bs[1] \div 4) \o B64Char((bs[1] % 4) * 16) \o "=="
    ELSE IF Len(bs) = 2
      THEN B64Char(bs[1] \div 4) \o B64Char((bs[1] % 4) * 16 + bs[2] \div 16)
           \o B64Char((bs[2] % 16) * 4) \o "="
    ELSE B64Char(bs[1] \div 4) \o B64Char((bs[1] % 4) * 16 + bs[2] \div 16)
         \o B64Char((bs[2] % 16) * 4 + bs[3] \div 64) \o B64Char(bs[3] % 64)
         \o B64Encode(SubSeq(bs, 4, Len(bs)))

\* def _crc32_base64(data: bytes) -> str
_crc32_base64(data) == B64Encode(ToBytes4Big(Mask32(Crc32(data))))

\* mutant: the line terminator is not written
LineOf_NoNewline(ev) == <<48 + ev>>

\* gz.write(json.dumps(ev, separators=(",", ":")).encode() + b"\n"): a record
\* is the integer the server numbered it with, so its JSON text is one digit
\* (0x30 + id) and its line ends with the newline byte; the gzip framing is
\* left out of the bytes
LineOf(ev) == <<48 + ev, 10>>

\* the storage (the tests' DummyS3): every create_multipart_upload call
\* returns the same id, "u-1", written 1 here; an upload_part call returns
\* the ETag f"etag-{PartNumber}"
NewUploadId == 1
ETagFor(id, no, payload) == <<"etag", no>>

\* mutant: the id the create call returned is not taken
UploadIdAfterCreate_Ignored(held, created) == held

\* upload_id = self.s3.create_multipart_upload(...)["UploadId"]: the local is
\* bound to the id just created, whatever an earlier call held
UploadIdAfterCreate(held, created) == created

\* mutant: the checksum is taken of the payload without its last byte
ChecksumOf_Truncated(payload) ==
    _crc32_base64(IF payload = <<>> THEN <<>> ELSE SubSeq(payload, 1, Len(payload) - 1))

\* checksum_b64 = _crc32_base64(payload)
ChecksumOf(payload) == _crc32_base64(payload)

\* the dict _upload_part returns
PartOf(id, no, payload, size) ==
    [PartNumber |-> no, ETag |-> ETagFor(id, no, payload), Size |-> size,
     ChecksumCRC32 |-> ChecksumOf(payload)]

\* a gz.write and buf.tell() after it, as the log records it
WriteEvent(tell) == [k |-> "write", tell |-> tell]

\* the storage call events of the log
\* the writer's key prefix (the constructor's default)
Prefix == ""
\* the second an instant lies in: strftime of %Y/%m/%d and %H%M%S
SecondOf(now) == now \div TicksPerSecond
\* key = f"{self.prefix}{endpoint}/{date_folder}/{fname}"
KeyOf(prefix, category, now) == <<prefix, category, SecondOf(now), "jsonl.gz">>
\* the create events logged so far
CreatesSoFar == SelectSeq(trace, LAMBDA e : e.k = "s3" /\ e.op = "create")
\* the log opens with a clock whose instants are told apart
ClockRuns == trace # <<>> /\ trace[1].k = "clock"
\* datetime.now(timezone.utc): the first call of a run reads instant 0; a
\* later call reads a later instant: the next one, or the one a second
\* later (always a second later where instants are not told apart)
NowChoices ==
    IF CreatesSoFar = <<>> THEN {0}
    ELSE LET last == CreatesSoFar[Len(CreatesSoFar)].now
         IN  IF ClockRuns THEN {last + 1, last + TicksPerSecond}
             ELSE {last + TicksPerSecond}
\* create_multipart_upload(Bucket, Key, ChecksumAlgorithm), logged with the
\* instant the key was made from
CreateCall(id, now, ok) ==
    [k |-> "s3", op |-> "create", ok |-> ok, UploadId |-> id,
     Key |-> KeyOf(Prefix, endpoint, now), now |-> now]
AbortCall(id, ok) == [k |-> "s3", op |-> "abort", ok |-> ok, UploadId |-> id]
UploadCall(id, no, payload, size, ok) ==
    [k |-> "s3", op |-> "upload_part", ok |-> ok, UploadId |-> id,
     PartNumber |-> no, Body |-> payload, Size |-> size, ChecksumCRC32 |-> ChecksumOf(payload),
     ETag |-> ETagFor(id, no, payload)]
\* "Parts": [{"PartNumber": ..., "ETag": ..., "ChecksumCRC32": ...} for p in parts]
CompleteCall(id, ps, ok) ==
    [k |-> "s3", op |-> "complete", ok |-> ok, UploadId |-> id,
     Parts |-> [i \in 1..Len(ps) |->
                  [PartNumber |-> ps[i].PartNumber, ETag |-> ps[i].ETag,
                   ChecksumCRC32 |-> ps[i].ChecksumCRC32]]]

\* mutant: the caught exception is re-raised whatever the abort did
RaisedAfterAbort_KeepsOriginal(caught, abortOk) == caught

\* except Exception: abort_multipart_upload(...); raise
\* the exception that leaves the handler, given the one caught
RaisedAfterAbort(caught, abortOk) == IF abortOk THEN caught ELSE "AbortError"

\* mutant: the failure propagates without the abort call
OnFailureInTry_NoAbort == "failed"

\* mutant: after a failure the loop is entered again
OnFailureInTry_Retry == "loop"

\* where a failure inside the try block leads: except Exception
OnFailureInTry == "abort"

\* create_multipart_upload, then the try block up to the first next()
WCreate ==
    /\ wpc = "start" /\ ctl = "consumer"
    /\ \E ok \in BOOLEAN, now \in NowChoices :
         /\ trace' = Append(trace, CreateCall(NewUploadId, now, ok))
         /\ IF ok
              THEN /\ upload_id' = UploadIdAfterCreate(upload_id, NewUploadId)
                   /\ parts' = <<>> /\ part_no' = 1 /\ buf' = <<>>
                   /\ bufSize' = GzipHeaderLen
                   /\ wpc' = "loop" /\ ctl' = "gen"
                   /\ UNCHANGED raised
              ELSE /\ raised' = "CreateError" /\ wpc' = "failed"
                   /\ UNCHANGED <<upload_id, parts, part_no, buf, bufSize, ctl>>
    /\ UNCHANGED <<wexc, returned>>
    /\ UNCHANGED FetchFrame

\* one iteration of for ev in events_iter: write, maybe upload a part, next()
\* (_upload_part rewinds the buffer before it sends it: buf.seek(0))
WConsume ==
    /\ wpc = "loop" /\ ctl = "consumer" /\ gpc = "yielding"
    /\ \E ok \in BOOLEAN :
         LET recs == buf \o LineOf(Delivered)
         IN
         \E size \in TellsAfterWrite(bufSize, recs) :
         IF PartIsFull(size)
           THEN \E tail \in DeflateTails(size, recs) :
                /\ trace' = Append2(trace, WriteEvent(size),
                                    UploadCall(upload_id, part_no, recs,
                                               SizeAtClose(size, tail), ok))
                /\ IF ok
                     THEN /\ parts' = Append(parts, PartOf(upload_id, part_no, recs,
                                                          SizeAtClose(size, tail)))
                          /\ part_no' = part_no + 1
                          /\ buf' = <<>> /\ bufSize' = GzipHeaderLen
                          /\ ctl' = "gen"
                          /\ UNCHANGED <<wpc, wexc>>
                     ELSE /\ wexc' = "UploadPartError" /\ wpc' = OnFailureInTry
                          /\ buf' = recs /\ bufSize' = 0
                          /\ UNCHANGED <<parts, part_no, ctl>>
           ELSE /\ ok
                /\ trace' = Append(trace, WriteEvent(size))
                /\ buf' = recs /\ bufSize' = size
                /\ ctl' = "gen"
                /\ UNCHANGED <<parts, part_no, wpc, wexc>>
    /\ UNCHANGED <<upload_id, raised, returned>>
    /\ UNCHANGED FetchFrame

\* mutant: an exception of the iterator is taken for the end of the input
WIterRaises_Swallows ==
    /\ wpc = "loop" /\ ctl = "consumer" /\ gpc = "raised"
    /\ gpc' = "done"
    /\ UNCHANGED <<wvars, ctl, trace, endpoint, since, max_pages,
                   max_duration_seconds, gerr, stop, params, page_count, elapsed,
                   events, wait_time, pos, clock, nextId>>

\* the iterator raised inside the for loop: control reaches except Exception
WIterRaises ==
    /\ wpc = "loop" /\ ctl = "consumer" /\ gpc = "raised"
    /\ wexc' = gerr
    /\ wpc' = OnFailureInTry
    /\ UNCHANGED <<upload_id, parts, part_no, buf, bufSize, raised, returned, ctl,
                   trace>>
    /\ UNCHANGED FetchFrame

\* mutant: an empty last stream is not uploaded
WFinalPart_SkipEmpty ==
    /\ wpc = "loop" /\ ctl = "consumer" /\ gpc = "done"
    /\ \E ok \in BOOLEAN, tail \in DeflateTails(bufSize, buf) :
         IF buf = <<>>
           THEN /\ ok /\ wpc' = "complete" /\ UNCHANGED <<trace, parts, wexc, bufSize>>
           ELSE /\ trace' = Append(trace, UploadCall(upload_id, part_no, buf,
                                                SizeAtClose(bufSize, tail), ok))
                /\ bufSize' = 0
                /\ IF ok
                     THEN /\ parts' = Append(parts, PartOf(upload_id, part_no, buf,
                                                     SizeAtClose(bufSize, tail)))
                          /\ wpc' = "complete"
                          /\ UNCHANGED wexc
                     ELSE /\ wexc' = "UploadPartError" /\ wpc' = OnFailureInTry
                          /\ UNCHANGED parts
    /\ UNCHANGED <<upload_id, part_no, buf, raised, returned, ctl>>
    /\ UNCHANGED FetchFrame

\* the iterator is exhausted: gz.close() and the upload of the last part
\* (_upload_part rewinds the buffer before it sends it: buf.seek(0))
WFinalPart ==
    /\ wpc = "loop" /\ ctl = "consumer" /\ gpc = "done"
    /\ \E ok \in BOOLEAN, tail \in DeflateTails(bufSize, buf) :
         /\ trace' = Append(trace, UploadCall(upload_id, part_no, buf,
                                                SizeAtClose(bufSize, tail), ok))
         /\ bufSize' = 0
         /\ IF ok
              THEN /\ parts' = Append(parts, PartOf(upload_id, part_no, buf,
                                                     SizeAtClose(bufSize, tail)))
                   /\ wpc' = "complete"
                   /\ UNCHANGED wexc
              ELSE /\ wexc' = "UploadPartError" /\ wpc' = OnFailureInTry
                   /\ UNCHANGED parts
    /\ UNCHANGED <<upload_id, part_no, buf, raised, returned, ctl>>
    /\ UNCHANGED FetchFrame

\* mutant: what follows the completion inside the try block fails
WComplete_FailsAfter ==
    /\ wpc = "complete"
    /\ \E ok \in BOOLEAN :
         /\ trace' = Append(trace, CompleteCall(upload_id, parts, ok))
         /\ wexc' = IF ok THEN "LogError" ELSE "CompleteError"
         /\ wpc' = OnFailureInTry
         /\ UNCHANGED returned
    /\ UNCHANGED <<upload_id, parts, part_no, buf, bufSize, raised, ctl>>
    /\ UNCHANGED FetchFrame

\* complete_multipart_upload with the parts list, then return key
WComplete ==
    /\ wpc = "complete"
    /\ \E ok \in BOOLEAN :
         /\ trace' = Append(trace, CompleteCall(upload_id, parts, ok))
         /\ IF ok
              THEN /\ returned' = TRUE /\ wpc' = "returned" /\ UNCHANGED wexc
              ELSE /\ wexc' = "CompleteError" /\ wpc' = OnFailureInTry
                   /\ UNCHANGED returned
    /\ UNCHANGED <<upload_id, parts, part_no, buf, bufSize, raised, ctl>>
    /\ UNCHANGED FetchFrame

\* except Exception: abort_multipart_upload, then raise
WAbort ==
    /\ wpc = "abort"
    /\ \E ok \in BOOLEAN :
         /\ trace' = Append(trace, AbortCall(upload_id, ok))
         /\ raised' = RaisedAfterAbort(wexc, ok)
    /\ wpc' = "failed"
    /\ UNCHANGED <<upload_id, parts, part_no, buf, bufSize, wexc, returned, ctl>>
    /\ UNCHANGED FetchFrame

(* --------------------------- specifications ---------------------------- *)
\* the client and its settings, and a generator object not yet started
InitFetch ==
    /\ endpoint \in Endpoints
    /\ since \in Sinces
    /\ max_pages \in 0..MaxPagesCfg
    /\ max_duration_seconds \in Durations
    /\ gpc = "created" /\ gerr = "none" /\ stop = "none"
    /\ params = InitialParams(since)
    /\ page_count = 0 /\ elapsed = 0 /\ events = <<>> /\ wait_time = 0 /\ pos = 1
    /\ clock = 0 /\ nextId = 1
    /\ trace = <<>>

\* no writer: the generator is consumed by list()
NoWriter ==
    /\ wpc = "none" /\ upload_id = 0 /\ parts = <<>> /\ part_no = 1 /\ buf = <<>> /\ bufSize = 0
    /\ PART_SIZE = ShippedPartSize
    /\ wexc = "none" /\ raised = "none" /\ returned = FALSE

Init == InitFetch /\ ctl = "gen" /\ NoWriter

Next == GenStart \/ GenGetFails \/ GenGet \/ GenYield \/ GenAfterPage \/ ListNext

Spec == Init /\ [][Next]_vars

\* run(): write_events is entered with the generator object not yet started
InitRun ==
    /\ InitFetch /\ ctl = "consumer"
    /\ wpc = "start" /\ upload_id = 0 /\ parts = <<>> /\ part_no = 1 /\ buf = <<>> /\ bufSize = 0
    /\ PART_SIZE \in PartSizes
    /\ wexc = "none" /\ raised = "none" /\ returned = FALSE

NextRun ==
    \/ GenStart \/ GenGetFails \/ GenGet \/ GenYield \/ GenAfterPage
    \/ WCreate \/ WConsume \/ WIterRaises \/ WFinalPart \/ WComplete \/ WAbort

SpecRun == InitRun /\ [][NextRun]_vars

(* ------------- fetch_events against a server that lets it finish ------- *)
\* the server promises to rate-limit at most Max429 times
InitLive ==
    /\ endpoint \in Endpoints
    /\ since \in Sinces
    /\ max_pages \in 0..MaxPagesCfg
    /\ max_duration_seconds \in Durations
    /\ gpc = "created" /\ gerr = "none" /\ stop = "none"
    /\ params = InitialParams(since)
    /\ page_count = 0 /\ elapsed = 0 /\ events = <<>> /\ wait_time = 0 /\ pos = 1
    /\ clock = 0 /\ nextId = 1
    /\ trace = <<[k |-> "server", max429 |-> Max429]>>
    /\ ctl = "gen" /\ NoWriter

\* Every request gets its answer (or fails), the generator frame runs on
\* when it is resumed, sleeps end, and list() keeps calling next().
SpecLive == InitLive /\ [][Next]_vars /\ WF_vars(Next)

(* ------------- write_events called on a plain iterator, repeatedly ----- *)
\* records given to write_events, over all its calls in one behaviour
MaxInputLen == 2
\* write_events calls made on the same writer in one behaviour
MaxWrites == 2
\* records given to write_events, over all its calls, where the clock's
\* instants are told apart
MaxKeyInputLen == 1

\* the model's cap on the records of all calls together
InputLenLimit == IF ClockRuns THEN MaxKeyInputLen ELSE MaxInputLen

\* write_events calls so far (the first is not marked in the log)
NumWrites == Len(OfKind(trace, "write_events")) + 1

\* next() on a plain iterator over the input (events holds the whole input):
\* the next record, or the end of the input, or an exception the iterator
\* raises instead of ending
IterNext ==
    /\ UNCHANGED wvars
    /\ wpc = "loop" /\ ctl = "gen" /\ gpc \in {"created", "yielding"}
    /\ IF pos <= Len(events)
         THEN /\ trace' = Append(trace, [k |-> "yield", rec |-> events[pos]])
              /\ pos' = pos + 1
              /\ gpc' = "yielding"
              /\ UNCHANGED gerr
         ELSE /\ \E e \in {"none", "IterError"} :
                   /\ gerr' = e
                   /\ gpc' = IF e = "none" THEN "done" ELSE "raised"
              /\ UNCHANGED <<pos, trace>>
    /\ ctl' = "consumer"
    /\ UNCHANGED <<endpoint, since, max_pages, max_duration_seconds, stop, params,
                   page_count, elapsed, events, wait_time, clock, nextId>>

\* write_events is called again on the same writer with fresh records, after
\* the earlier call returned or raised; how the earlier call ended is logged.
\* The new frame's locals are assigned by the body before they are read.
NewWrite ==
    /\ wpc \in {"returned", "failed"} /\ NumWrites < MaxWrites
    /\ \E n \in 0..(InputLenLimit - (nextId - 1)) :
         /\ events' = Ids(nextId, n)
         /\ nextId' = nextId + n
    /\ pos' = 1 /\ gpc' = "created" /\ gerr' = "none" /\ ctl' = "consumer"
    /\ wpc' = "start" /\ wexc' = "none" /\ raised' = "none" /\ returned' = FALSE
    /\ trace' = Append(trace, [k |-> "write_events",
                               prev |-> IF returned THEN "returned" ELSE raised])
    /\ UNCHANGED <<upload_id, parts, part_no, buf, bufSize, PART_SIZE>>
    /\ UNCHANGED <<endpoint, since, max_pages, max_duration_seconds, stop, params,
                   page_count, elapsed, wait_time, clock>>

\* a writer, and an iterator over the input not yet started
InitWrites ==
    /\ endpoint = "application" /\ since \in Sinces
    /\ max_pages = 0 /\ max_duration_seconds = 0
    /\ gpc = "created" /\ gerr = "none" /\ stop = "none"
    /\ params = InitialParams(since)
    /\ page_count = 0 /\ elapsed = 0 /\ wait_time = 0 /\ clock = 0
    /\ events \in {Ids(1, n) : n \in 0..MaxInputLen}
    /\ nextId = Len(events) + 1 /\ pos = 1
    /\ trace = <<>>
    /\ ctl = "consumer"
    /\ wpc = "start" /\ upload_id = 0 /\ parts = <<>> /\ part_no = 1
    /\ buf = <<>> /\ bufSize = 0 /\ PART_SIZE \in PartSizes
    /\ wexc = "none" /\ raised = "none" /\ returned = FALSE

NextWrites ==
    \/ IterNext \/ NewWrite
    \/ WCreate \/ WConsume \/ WIterRaises \/ WFinalPart \/ WComplete \/ WAbort

SpecWrites == InitWrites /\ [][NextWrites]_vars

(* ------------- write_events calls and the instants they start at ------- *)
\* as InitWrites, with a clock whose instants within a second are told apart
InitKeys ==
    /\ endpoint = "application" /\ since \in Sinces
    /\ max_pages = 0 /\ max_duration_seconds = 0
    /\ gpc = "created" /\ gerr = "none" /\ stop = "none"
    /\ params = InitialParams(since)
    /\ page_count = 0 /\ elapsed = 0 /\ wait_time = 0 /\ clock = 0
    /\ events \in {Ids(1, n) : n \in 0..MaxKeyInputLen}
    /\ nextId = Len(events) + 1 /\ pos = 1
    /\ trace = <<[k |-> "clock", ticks |-> TicksPerSecond]>>
    /\ ctl = "consumer"
    /\ wpc = "start" /\ upload_id = 0 /\ parts = <<>> /\ part_no = 1
    /\ buf = <<>> /\ bufSize = 0 /\ PART_SIZE \in PartSizes
    /\ wexc = "none" /\ raised = "none" /\ returned = FALSE

SpecKeys == InitKeys /\ [][NextWrites]_vars

(* ---------------------- _crc32_base64 called on its own ---------------- *)
\* longest byte string given to _crc32_base64
MaxDataLen == 3
\* byte values the strings are made of: NUL, "a", "b", "c", 0xFF
DataBytes == {0, 97, 98, 99, 255}
ByteStrings == UNION {[1..n -> DataBytes] : n \in 0..MaxDataLen}

\* the call is made with the bytes held in buf
InitCrc ==
    /\ InitFetch /\ endpoint = "application" /\ max_pages = 0
    /\ max_duration_seconds = 0 /\ ctl = "consumer"
    /\ wpc = "crc" /\ buf \in ByteStrings
    /\ upload_id = 0 /\ parts = <<>> /\ part_no = 1 /\ bufSize = 0
    /\ PART_SIZE = ShippedPartSize
    /\ wexc = "none" /\ raised = "none" /\ returned = FALSE

\* checksum = _crc32_base64(data); the call and its result are logged
Checksum ==
    /\ wpc = "crc"
    /\ trace' = Append(trace, [k |-> "crc", data |-> buf, out |-> _crc32_base64(buf)])
    /\ wpc' = "crc_done"
    /\ UNCHANGED <<upload_id, parts, part_no, buf, bufSize, wexc, raised, returned,
                   ctl>>
    /\ UNCHANGED FetchFrame

NextCrc == Checksum

SpecCrc == InitCrc /\ [][NextCrc]_vars

(* --------------------- run(): the start of the window ------------------ *)
\* the since_minutes values a caller gives
SinceMinutesGiven == {-5, 0, 1, 15, 60}
\* the argument of run: None (not given) or an integer
SinceMinutesArgs ==
    {[given |-> FALSE, minutes |-> 0]}
      \cup {[given |-> TRUE, minutes |-> m] : m \in SinceMinutesGiven}
\* cfg.fetch_window_minutes: the default and other configured values
FetchWindows == {15, 30, 45}
\* what datetime.now(timezone.utc) returns in run, in epoch seconds
Nows == {1700000000 + 3600 * h : h \in 0..3}

\* mutant: only None is replaced
IsFalsy_NoneOnly(arg) == ~arg.given

\* Python's truth test on the left operand of or: None and 0 are falsy
IsFalsy(arg) == ~arg.given \/ arg.minutes = 0

\* since_minutes = since_minutes or cfg.fetch_window_minutes
SinceMinutesUsed(arg, window) == IF IsFalsy(arg) THEN window ELSE arg.minutes

\* since = datetime.now(timezone.utc) - timedelta(minutes=since_minutes)
SinceOf(now, minutes) == now - 60 * minutes

\* run is entered with its argument, the configuration and the clock's value
InitSince ==
    /\ endpoint = "application" /\ since \in Sinces
    /\ max_pages = 0 /\ max_duration_seconds = 0
    /\ gpc = "created" /\ gerr = "none" /\ stop = "none"
    /\ params = InitialParams(since)
    /\ page_count = 0 /\ elapsed = 0 /\ events = <<>> /\ wait_time = 0 /\ pos = 1
    /\ clock = 0 /\ nextId = 1
    /\ ctl = "consumer"
    /\ wpc = "run"
    /\ \E a \in SinceMinutesArgs, w \in FetchWindows, n \in Nows :
         trace = <<[k |-> "run", since_minutes |-> a, fetch_window_minutes |-> w,
                    now |-> n]>>
    /\ upload_id = 0 /\ parts = <<>> /\ part_no = 1 /\ buf = <<>> /\ bufSize = 0
    /\ PART_SIZE = ShippedPartSize
    /\ wexc = "none" /\ raised = "none" /\ returned = FALSE

\* run up to the call of write_events: the window's start is computed and
\* handed to fetch_events
ComputeSince ==
    /\ wpc = "run"
    /\ since' = SinceOf(trace[1].now,
                        SinceMinutesUsed(trace[1].since_minutes,
                                         trace[1].fetch_window_minutes))
    /\ params' = InitialParams(since')
    /\ wpc' = "start"
    /\ UNCHANGED <<endpoint, max_pages, max_duration_seconds, ctl, gpc, gerr, stop,
                   page_count, elapsed, events, wait_time, pos, clock, nextId,
                   trace>>
    /\ UNCHANGED <<upload_id, parts, part_no, buf, bufSize, PART_SIZE, wexc, raised,
                   returned>>

NextSince == ComputeSince

SpecSince == InitSince /\ [][NextSince]_vars

(* ----------------- several fetch_events calls on one client ------------- *)
\* fetch_events calls made on the same client in one behaviour
MaxCalls == 2
\* the timestamps later calls are given
LaterSinces == {1700000900}

\* calls made so far (each call is marked in the log)
NumCalls == Len(OfKind(trace, "call"))

\* The consumer calls fetch_events again on the same client, with another
\* timestamp, after the earlier generator has ended or while it is suspended
\* at a yield and then dropped.  The new generator object has not run yet:
\* the client keeps index, session and settings, and the new frame's locals
\* are assigned by the body before they are read.
NewCall ==
    /\ UNCHANGED wvars
    /\ wpc = "none" /\ ctl = "consumer" /\ gpc \in {"done", "raised", "yielding"}
    /\ NumCalls < MaxCalls
    /\ \E s \in LaterSinces :
         /\ since' = s
         /\ trace' = Append(trace, [k |-> "call", since |-> s])
    /\ gpc' = "created" /\ gerr' = "none" /\ stop' = "none" /\ ctl' = "gen"
    /\ UNCHANGED <<endpoint, max_pages, max_duration_seconds, params, page_count,
                   elapsed, events, wait_time, pos, clock, nextId>>

\* the first call is marked in the log too; the budgets, which play no part
\* in the request parameters, are set wide
InitCalls ==
    /\ endpoint \in Endpoints
    /\ since \in Sinces
    /\ max_pages = MaxPagesCfg
    /\ max_duration_seconds = 3
    /\ gpc = "created" /\ gerr = "none" /\ stop = "none"
    /\ params = InitialParams(since)
    /\ page_count = 0 /\ elapsed = 0 /\ events = <<>> /\ wait_time = 0 /\ pos = 1
    /\ clock = 0 /\ nextId = 1
    /\ trace = <<[k |-> "call", since |-> since]>>
    /\ ctl = "gen" /\ NoWriter

NextCalls == Next \/ NewCall

SpecCalls == InitCalls /\ [][NextCalls]_vars

(* ------------------------ reading the observable log ------------------- *)
Gets == OfKind(trace, "get")
Sleeps == OfKind(trace, "sleep")
S3Calls == OfKind(trace, "s3")

\* the records yielded so far, in order
Yielded == [i \in 1..Len(OfKind(trace, "yield")) |-> OfKind(trace, "yield")[i].rec]

IsResponse(e) == e.k = "get" /\ e.out = "response"
IsTransportFailure(e) == e.k = "get" /\ e.out = "exception"
Is429(e) == IsResponse(e) /\ e.resp.status = 429
IsErrorStatus(e) == IsResponse(e) /\ e.resp.status \in ErrorStatuses
\* a page: a response that is neither a 429 nor an error
IsPage(e) == IsResponse(e) /\ e.resp.status = 200

\* the pages received so far, in order, and their result arrays
Pages == SelectSeq(trace, IsPage)
PageResults == [i \in 1..Len(Pages) |-> Pages[i].resp.result]

\* the result arrays of the pages among the first n events of the log
PageResultsBefore(n) ==
    LET ps == SelectSeq(SubSeq(trace, 1, n), IsPage)
    IN  [i \in 1..Len(ps) |-> ps[i].resp.result]

Max(a, b) == IF a >= b THEN a ELSE b

(* ------------------------------- claims -------------------------------- *)

\* C1: when every response was a 200 page, every page but the last had a
\* non-empty result, the last was empty with wait_time 0 and the fetch ended
\* by natural end (no budget hit), the records yielded are exactly the
\* concatenation of all result arrays in page order.
C1_Case ==
    /\ gpc = "done" /\ stop = "natural"
    /\ \A i \in 1..Len(trace) : trace[i].k = "get" => IsPage(trace[i])
    /\ \A i \in 1..(Len(Pages) - 1) : Pages[i].resp.result # <<>>
    /\ Len(Pages) >= 1
    /\ Pages[Len(Pages)].resp.result = <<>>
    /\ Pages[Len(Pages)].resp.wait_time = 0
C1_YieldsConcatenationInPageOrder ==
    C1_Case => Yielded = Flatten(PageResults)
C1_Witness ==
    /\ C1_Case
    /\ Len(Pages) >= 3
    /\ Len(Pages[1].resp.result) >= 2
    /\ Len(Yielded) >= 3

\* C2 as stated: with max_fetch_pages = N >= 0 and a server that keeps
\* serving non-empty pages, a fetch that the page budget ends has received
\* exactly N pages and yielded exactly their records.
C2_Case ==
    /\ gpc = "done" /\ stop = "pages"
    /\ \A i \in 1..Len(trace) :
         trace[i].k = "get" => (IsPage(trace[i]) /\ trace[i].resp.result # <<>>)
C2_ExactlyNPages_Original ==
    C2_Case => /\ Len(Pages) = max_pages
               /\ Len(Gets) = max_pages
               /\ Yielded = Flatten(PageResults)
\* C2 amended: the budget is checked after a page, so the first page is
\* always fetched and yielded: exactly max(1, N) pages, i.e. N pages for
\* every N >= 1 and one page for N = 0.
C2_ExactlyMaxOneNPages ==
    C2_Case => /\ Len(Pages) = Max(1, max_pages)
               /\ Len(Gets) = Max(1, max_pages)
               /\ Yielded = Flatten(PageResults)
               /\ page_count = Len(Pages)
C2_Witness ==
    /\ C2_Case /\ max_pages = 2 /\ Len(Pages) = 2 /\ Len(Yielded) >= 3

\* C3: with max_fetch_duration_seconds = 0, once a page has been received
\* it is the last request of the call, no sleep follows it, and the fetch
\* ends having yielded exactly the records of that page, whatever its
\* wait_time and whatever max_fetch_pages.
C3_ZeroDurationOnePage ==
    (max_duration_seconds = 0 /\ Len(Pages) >= 1) =>
        /\ Len(Pages) = 1
        /\ IsPage(trace[Len(trace)]) \/ trace[Len(trace)].k = "yield"
        /\ \A i \in 1..Len(trace) :
             IsPage(trace[i]) => \A j \in (i + 1)..Len(trace) : trace[j].k = "yield"
        /\ gpc \in {"yielding", "done"}
        /\ gpc = "done" => (Yielded = Pages[1].resp.result /\ gerr = "none")
C3_Witness ==
    /\ max_duration_seconds = 0 /\ max_pages = 2 /\ gpc = "done"
    /\ stop = "duration"
    /\ Len(Pages) = 1 /\ Pages[1].resp.wait_time > 0
    /\ Len(Yielded) = 2
    /\ \E i \in 1..Len(trace) : Is429(trace[i])

\* seconds slept in the 429 branch among the sleeps sl
RECURSIVE BackoffSecs(_)
BackoffSecs(sl) ==
    IF sl = <<>> THEN 0
    ELSE (IF Head(sl).why = "429" THEN Head(sl).secs ELSE 0) + BackoffSecs(Tail(sl))
\* seconds this fetch has slept after 429 responses
BackoffSlept == BackoffSecs(Sleeps)
\* what the break conditions give after the last page in the run that gets
\* the same pages with the same latencies and no 429: its time.time() -
\* start_time is that of this run less the back-off sleeps
StopWithout429s ==
    StopAfterPage(events, wait_time, page_count, elapsed - BackoffSlept,
                  max_pages, max_duration_seconds)
\* the fetch has ended by one of its three break conditions
EndedByBreak == gpc = "done" /\ stop \in {"natural", "pages", "duration"}

\* C4 as the specification states it: a 429 is not a page (page_count counts
\* the 200 pages only, the records yielded are those of the 200 pages, each
\* once and in order, and a fetch ended by the page budget has received
\* max_fetch_pages real pages), and the run yields what the same run without
\* the 429s yields: where this run ends, that run ends too.  The last part
\* fails: time.sleep(retry_after) is inside the time elapsed checks, so after
\* a 429 with the default back-off of 5 s and a budget of 3 s this run ends
\* after its first page while the run without the 429 asks for the next page.
C4_SameAsWithout429s_Original ==
    /\ gpc \in {"request", "done"} => page_count = Len(Pages)
    /\ gpc = "yielding" => page_count = Len(Pages) - 1
    /\ gpc \in {"request", "done", "raised"} => Yielded = Flatten(PageResults)
    /\ stop = "pages" => Len(Pages) >= max_pages
    /\ EndedByBreak => StopWithout429s = stop

\* C4: a 429 is not a page: page_count counts the 200 pages only, the
\* records yielded are those of the 200 pages only (each once, in order),
\* and a fetch ended by the page budget has received at least
\* max_fetch_pages real pages however many 429s came in between; a fetch
\* ended by natural end or by the page budget ends where the run without the
\* 429s ends, and a fetch ended by the time budget ends there too unless the
\* back-off sleeps are what spent the budget, in which case the run without
\* the 429s goes on to the next page.
C4_SameUnlessBackoffSpendsBudget ==
    /\ gpc \in {"request", "done"} => page_count = Len(Pages)
    /\ gpc = "yielding" => page_count = Len(Pages) - 1
    /\ gpc \in {"request", "done", "raised"} => Yielded = Flatten(PageResults)
    /\ stop = "pages" => Len(Pages) >= max_pages
    /\ (EndedByBreak /\ stop \in {"natural", "pages"}) => StopWithout429s = stop
    /\ (EndedByBreak /\ stop = "duration") =>
           \/ StopWithout429s = "duration"
           \/ /\ StopWithout429s = "none"
              /\ BackoffSlept > 0
              /\ elapsed - BackoffSlept < max_duration_seconds
              /\ elapsed >= max_duration_seconds
C4_Witness ==
    /\ gpc = "done" /\ stop = "pages" /\ max_pages = 2 /\ Len(Pages) = 2
    /\ Len(Gets) = 3
    /\ Is429(Gets[1]) /\ IsPage(Gets[2]) /\ Gets[2].resp.result # <<>>
    /\ Yielded = Flatten(PageResults)
    /\ BackoffSlept > 0 /\ max_duration_seconds > BackoffSlept
    /\ StopWithout429s = "pages"

\* C5: if the first response is a page with an empty result and
\* wait_time 0, the call issues that one request only, yields no record,
\* never sleeps and ends normally by natural end, whatever the budgets.
C5_Case ==
    /\ Len(Gets) >= 1 /\ IsPage(Gets[1])
    /\ Gets[1].resp.result = <<>> /\ Gets[1].resp.wait_time = 0
C5_EmptyFirstPageEndsFetch ==
    C5_Case => /\ Len(Gets) = 1
               /\ Yielded = <<>>
               /\ Sleeps = <<>>
               /\ gpc \in {"yielding", "done"}
               /\ gpc = "done" => (stop = "natural" /\ gerr = "none")
C5_Witness ==
    /\ C5_Case /\ gpc = "done" /\ max_pages = 0 /\ max_duration_seconds = 0

\* C6: for a category that is not a key of the path map the generator
\* raises ValueError having issued no HTTP request and yielded no record.
C6_UnsupportedCategoryFailsFirst ==
    (endpoint \notin EndpointPathKeys) =>
        /\ Gets = <<>> /\ Yielded = <<>> /\ Sleeps = <<>>
        /\ gpc \in {"created", "raised"}
        /\ gpc = "raised" => gerr = "ValueError"
C6_Witness ==
    endpoint = "nope" /\ gpc = "raised" /\ gerr = "ValueError" /\ ctl = "consumer"

\* C7 as stated: in run(), when the unsupported-category error reaches the
\* caller, no HTTP request and no storage call has been made.
C7_UnknownCategoryBeforeAnyIO ==
    (endpoint \notin EndpointPathKeys /\ raised = "ValueError") =>
        (Gets = <<>> /\ S3Calls = <<>>)

\* C8: a response with an error status other than 429 is the last thing
\* the call does: the generator raises the HTTP error, nothing is requested,
\* slept or yielded after it, and what was yielded is exactly the records
\* of the pages received before it.
C8_ErrorStatusIsFatal ==
    \A i \in 1..Len(trace) :
        IsErrorStatus(trace[i]) =>
            /\ i = Len(trace)
            /\ gpc = "raised" /\ gerr = "HTTPError" /\ ctl = "consumer"
            /\ Yielded = Flatten(PageResultsBefore(i))
            /\ \A j \in 1..Len(Yielded) :
                 \A m \in 1..Len(trace[i].resp.result) :
                     Yielded[j] # trace[i].resp.result[m]
C8_Witness ==
    /\ gpc = "raised" /\ gerr = "HTTPError"
    /\ IsErrorStatus(trace[Len(trace)])
    /\ Len(Pages) >= 1 /\ Len(Yielded) >= 2

\* C9: a transport failure on any request ends the sequence normally: it is
\* the last thing the call does (no request or sleep after it), no error is
\* raised, and what was yielded is exactly the records of the pages received
\* before it.
C9_TransportFailureEndsQuietly ==
    \A i \in 1..Len(trace) :
        IsTransportFailure(trace[i]) =>
            /\ i = Len(trace)
            /\ gpc = "done" /\ gerr = "none" /\ ctl = "consumer"
            /\ Yielded = Flatten(PageResultsBefore(i))
C9_Witness ==
    /\ gpc = "done" /\ stop = "transport"
    /\ IsTransportFailure(trace[Len(trace)])
    /\ Len(Pages) >= 1 /\ Len(Yielded) >= 2 /\ Len(Gets) = 3

\* the failure that made write_events leave its try block, read from the log
\* and from the generator (no retries: there is at most one)
IsS3(e, op) == e.k = "s3" /\ e.op = op
SessionCreated == \E i \in 1..Len(trace) : IsS3(trace[i], "create") /\ trace[i].ok
OriginalFailure ==
    IF \E i \in 1..Len(trace) : IsS3(trace[i], "upload_part") /\ ~trace[i].ok
      THEN "UploadPartError"
    ELSE IF \E i \in 1..Len(trace) : IsS3(trace[i], "complete") /\ ~trace[i].ok
      THEN "CompleteError"
    ELSE IF gpc = "raised" THEN gerr
    ELSE "none"
Aborts == SelectSeq(trace, LAMBDA e : IsS3(e, "abort"))
Completes == SelectSeq(trace, LAMBDA e : IsS3(e, "complete"))

\* C10: after a failure in write_events once the session exists (the input
\* sequence raised, an upload_part failed or the completion failed),
\* abort_multipart_upload is called (once, as the last storage call), no
\* completion call follows the failure, and when abort succeeds the caller
\* observes the original exception.
C10_FailureAbortsAndReraises ==
    (SessionCreated /\ OriginalFailure # "none") =>
        /\ wpc \in {"loop", "abort", "failed"}
        /\ ~returned
        /\ Len(Completes) = (IF OriginalFailure = "CompleteError" THEN 1 ELSE 0)
        /\ \A i \in 1..Len(Completes) : ~Completes[i].ok
        /\ wpc = "failed" =>
             /\ Len(Aborts) = 1
             /\ IsS3(trace[Len(trace)], "abort")
             /\ raised # "none"
             /\ Aborts[1].ok => raised = OriginalFailure
        /\ wpc # "failed" => (Aborts = <<>> /\ raised = "none")
C10_Witness ==
    /\ wpc = "failed" /\ raised = "HTTPError"
    /\ Len(parts) >= 1
    /\ Len(Aborts) = 1 /\ Aborts[1].ok

\* the requests issued before request i that were answered by a page
PagesBeforeGet(i) == {j \in 1..(i - 1) : IsPage(Gets[j])}

\* C17 (as stated): every request after the first carries operation "next"
\* instead of the timestamp, and every request carries the same index.
C17_NextAfterFirstRequest_Original ==
    /\ \A i \in 2..Len(Gets) : Gets[i].params.operation.mode = "next"
    /\ \A i \in 1..Len(Gets) : Gets[i].params.index = Index

\* C17 (amended): every request issued after the first page was received
\* carries operation "next"; every request up to and including the one the
\* first page answers (the first request and its retries after a 429) carries
\* the caller's timestamp; every request carries the same index.
C17_NextAfterFirstPage ==
    \A i \in 1..Len(Gets) :
        /\ Gets[i].params.index = Index
        /\ Gets[i].params.operation =
             (IF PagesBeforeGet(i) # {} THEN [mode |-> "next", ts |-> 0]
                                        ELSE [mode |-> "timestamp", ts |-> since])
C17_Witness ==
    /\ Len(Gets) = 3
    /\ Is429(Gets[1]) /\ IsPage(Gets[2])
    /\ Gets[2].params.operation.mode = "timestamp"
    /\ Gets[3].params.operation.mode = "next"

\* C19: a 429 is followed in the log by a sleep of the Retry-After seconds
\* (5 when the header is absent) and then, when a request follows, by a
\* request with exactly the parameters of the rate-limited one; between the
\* 429 and the retry no budget is checked: the loop has not stopped, whatever
\* the clock and the page count are.
C19_RetrySameParamsAfterBackoff ==
    \A i \in 1..Len(trace) :
        Is429(trace[i]) =>
          /\ i + 1 <= Len(trace)
          /\ trace[i + 1] =
               [k |-> "sleep", why |-> "429",
                secs |-> (IF trace[i].resp.has_retry_after
                            THEN trace[i].resp.retry_after ELSE 5)]
          /\ i + 1 = Len(trace) =>
               /\ gpc = "request" /\ ctl = "gen" /\ stop = "none" /\ gerr = "none"
               /\ params = trace[i].params
          /\ i + 2 <= Len(trace) =>
               /\ trace[i + 2].k = "get"
               /\ trace[i + 2].params = trace[i].params
C19_Witness ==
    /\ Len(Gets) = 3 /\ max_duration_seconds = 3
    /\ IsPage(Gets[1])
    /\ Is429(Gets[2]) /\ ~Gets[2].resp.has_retry_after
    /\ Gets[2].params.operation.mode = "next"
    /\ Gets[3].params = Gets[2].params
    /\ \E i \in 1..Len(Sleeps) : Sleeps[i].why = "429" /\ Sleeps[i].secs = 5

\* every request so far was answered 429
OnlyRateLimited == Len(Gets) >= 1 /\ \A i \in 1..Len(Gets) : Is429(Gets[i])

\* C20: against a server that answers 429 to every request, fetch_events has
\* not ended, yielded or raised after any number of requests, whatever
\* max_fetch_pages and max_fetch_duration_seconds are: it is about to issue
\* one more request (which the model allows up to its cap on requests).
C20_RateLimitedForeverNeverEnds ==
    OnlyRateLimited =>
        /\ gpc = "request" /\ ctl = "gen"
        /\ stop = "none" /\ gerr = "none"
        /\ Yielded = <<>> /\ page_count = 0
        /\ NumGets < ReqLimit => ENABLED GenGet
C20_Witness ==
    /\ OnlyRateLimited /\ Len(Gets) = 3
    /\ max_pages = 0 /\ max_duration_seconds = 0
    /\ clock >= 10
    /\ gpc = "request" /\ ctl = "gen"

\* log positions i <= j belong to the same fetch_events call
SameCall(i, j) == \A m \in (i + 1)..j : trace[m].k # "call"
\* log position j holds the first request of the call marked at position i
FirstGetOfCall(i, j) ==
    /\ trace[i].k = "call" /\ i < j /\ SameCall(i, j)
    /\ trace[j].k = "get"
    /\ \A m \in (i + 1)..(j - 1) : trace[m].k # "get"

\* C18: within one call, once a request with operation "next" was issued no
\* later request of that call carries a timestamp; and the first request of
\* every call carries the timestamp that call was given, whatever the earlier
\* calls on the same client did.
C18_CursorOneWayFreshPerCall ==
    /\ \A i, j \in 1..Len(trace) :
         (/\ i < j /\ trace[i].k = "get" /\ trace[j].k = "get" /\ SameCall(i, j)
          /\ trace[i].params.operation.mode = "next")
         => trace[j].params.operation.mode = "next"
    /\ \A i, j \in 1..Len(trace) :
         FirstGetOfCall(i, j) =>
             trace[j].params =
               [operation |-> [mode |-> "timestamp", ts |-> trace[i].since],
                index |-> "default"]
C18_Witness ==
    /\ NumCalls = 2 /\ Len(Gets) = 3
    /\ Gets[2].params.operation.mode = "next"
    /\ Gets[3].params.operation = [mode |-> "timestamp", ts |-> 1700000900]

RECURSIVE CrcBitwise(_, _)
\* CRC-32 by its definition, one bit at a time, without the table
CrcBitwise(c, data) ==
    IF data = <<>> THEN c
    ELSE CrcBitwise(CrcShift(Xor32(c, [hi |-> 0, lo |-> Head(data)]), 8), Tail(data))
\* the value of four bytes read most significant first
FromBytes4Big(bs) == [hi |-> bs[1] * 256 + bs[2], lo |-> bs[3] * 256 + bs[4]]
\* the logged calls of _crc32_base64
CrcCalls == OfKind(trace, "crc")

\* C16: the checksum of a byte string is the base64 text of the four
\* big-endian bytes of its CRC-32 (a value below 2^32): the checksum of "abc"
\* is "NSRBwg==", of the empty string "AAAAAA==", of "a" "6Le+Qw==", and for
\* every input it is the encoding of the CRC-32 computed bit by bit.
C16_ChecksumIsBase64BigEndianCrc32 ==
    \A i \in 1..Len(CrcCalls) :
        LET d == CrcCalls[i].data
            crc == Xor32(CrcBitwise(Ones32, d), Ones32)
            be == <<crc.hi \div 256, crc.hi % 256, crc.lo \div 256, crc.lo % 256>>
        IN  /\ crc.hi \in 0..65535 /\ crc.lo \in 0..65535
            /\ FromBytes4Big(be) = crc
            /\ CrcCalls[i].out = B64Encode(be)
            /\ Len(CrcCalls[i].out) = 8
            /\ d = <<97, 98, 99>> => CrcCalls[i].out = "NSRBwg=="
            /\ d = <<>> => CrcCalls[i].out = "AAAAAA=="
            /\ d = <<97>> => CrcCalls[i].out = "6Le+Qw=="
C16_Witness ==
    /\ Len(CrcCalls) = 1
    /\ CrcCalls[1].data = <<97, 98, 99>>
    /\ CrcCalls[1].out = "NSRBwg=="

(* the log of the write_events call in progress (or just ended): the events
   after the mark of the latest call *)
CallStart ==
    LET marks == {m \in 1..Len(trace) : trace[m].k = "write_events"}
    IN  IF marks = {} THEN 0 ELSE CHOOSE m \in marks : \A n \in marks : n <= m
CurLog == SubSeq(trace, CallStart + 1, Len(trace))
CurS3 == OfKind(CurLog, "s3")
CurUploads == SelectSeq(CurLog, LAMBDA e : IsS3(e, "upload_part"))
CurCompletes == SelectSeq(CurLog, LAMBDA e : IsS3(e, "complete"))
CurAborts == SelectSeq(CurLog, LAMBDA e : IsS3(e, "abort"))
CurCreates == SelectSeq(CurLog, LAMBDA e : IsS3(e, "create"))
\* the input records this call has consumed, in order
CurInput ==
    [i \in 1..Len(OfKind(CurLog, "yield")) |-> OfKind(CurLog, "yield")[i].rec]
\* the completion call was just issued
JustCompleted == trace # <<>> /\ IsS3(trace[Len(trace)], "complete")

\* C11: whenever the completion call is issued (it is then the last event of
\* the log, which only grows), its part list is the list of the parts
\* uploaded in this session: as many entries as upload_part calls of this
\* write_events call (all of them acknowledged), part numbers 1..n in
\* ascending order, each entry holding the ETag its upload_part call returned
\* and the CRC-32 checksum of exactly the bytes that call sent.
C11_CompletionListsUploadedParts ==
    JustCompleted =>
        LET ups == CurUploads
            done == trace[Len(trace)]
            ps == done.Parts
        IN  /\ Len(ps) = Len(ups)
            /\ \A i \in 1..Len(ups) :
                 /\ ups[i].ok
                 /\ ups[i].UploadId = done.UploadId
                 /\ ups[i].PartNumber = i
                 /\ ps[i].PartNumber = i
                 /\ ps[i].ETag = ups[i].ETag
                 /\ ps[i].ChecksumCRC32 = _crc32_base64(ups[i].Body)
                 /\ ups[i].ChecksumCRC32 = ps[i].ChecksumCRC32
C11_Witness ==
    /\ returned /\ NumWrites = 2 /\ JustCompleted
    /\ Len(CurCompletes[1].Parts) = 3
    /\ CurUploads[1].Body # <<>>
    /\ CurUploads[3].Body = <<>>

RECURSIVE LinesOf(_)
\* the lines of a byte string: the bytes before each newline byte (and what
\* follows the last newline, when it is not empty)
LinesOf(bs) ==
    IF bs = <<>> THEN <<>>
    ELSE LET ends == {n \in 1..Len(bs) : bs[n] = 10}
         IN  IF ends = {} THEN <<bs>>
             ELSE LET n == CHOOSE e \in ends : \A f \in ends : e <= f
                  IN  <<SubSeq(bs, 1, n - 1)>> \o LinesOf(SubSeq(bs, n + 1, Len(bs)))
\* the record a line holds: json.loads of a one-digit text (0 when the line
\* is not one)
RecordOfLine(l) == IF Len(l) = 1 /\ l[1] \in 49..57 THEN l[1] - 48 ELSE 0
\* the records read back from a part's bytes, line by line
RecordsIn(bs) == [i \in 1..Len(LinesOf(bs)) |-> RecordOfLine(LinesOf(bs)[i])]

\* C12: after write_events returned, the records read back from the uploaded
\* parts, part after part in part-number order and line by line, are exactly
\* the input sequence: every record once, as one line, in order, wherever the
\* part boundaries fell.
C12_PartsReadBackAsInput ==
    wpc = "returned" =>
        /\ \A i \in 1..Len(CurUploads) : CurUploads[i].PartNumber = i
        /\ Flatten([i \in 1..Len(CurUploads) |-> RecordsIn(CurUploads[i].Body)])
             = events
        /\ CurInput = events
C12_Witness ==
    /\ wpc = "returned" /\ Len(events) = 2
    /\ Len(CurUploads) = 3
    /\ RecordsIn(CurUploads[1].Body) = <<1>>
    /\ RecordsIn(CurUploads[2].Body) = <<2>>
    /\ RecordsIn(CurUploads[3].Body) = <<>>

\* every storage call of this write_events call succeeded
StorageAllOk == \A i \in 1..Len(CurS3) : CurS3[i].ok

\* C13: for an empty input sequence (the iterator ends at once, the storage
\* accepts every call) write_events creates one session, uploads exactly one
\* part, number 1, holding no record, issues exactly one completion that
\* lists that one part, issues no abort, and returns.
C13_EmptyInputOneEmptyPart ==
    (events = <<>> /\ gerr = "none" /\ StorageAllOk) =>
        /\ Len(CurS3) <= 3
        /\ Len(CurS3) >= 1 => IsS3(CurS3[1], "create")
        /\ Len(CurS3) >= 2 =>
             /\ IsS3(CurS3[2], "upload_part")
             /\ CurS3[2].PartNumber = 1 /\ CurS3[2].UploadId = CurS3[1].UploadId
             /\ RecordsIn(CurS3[2].Body) = <<>>
        /\ Len(CurS3) = 3 =>
             /\ IsS3(CurS3[3], "complete")
             /\ CurS3[3].UploadId = CurS3[1].UploadId
             /\ Len(CurS3[3].Parts) = 1
             /\ CurS3[3].Parts[1].PartNumber = 1
             /\ CurS3[3].Parts[1].ETag = CurS3[2].ETag
        /\ wpc \in {"returned", "failed"} =>
             (returned /\ raised = "none" /\ Len(CurS3) = 3)
        /\ (gpc = "done" /\ wpc = "complete") => Len(CurS3) = 2
C13_Witness ==
    /\ events = <<>> /\ returned /\ StorageAllOk
    /\ Len(CurS3) = 3 /\ CurAborts = <<>>
    /\ RecordsIn(CurUploads[1].Body) = <<>>

RECURSIVE SumOfSizes(_)
\* the bytes of a sequence of upload_part calls, added up
SumOfSizes(ups) == IF ups = <<>> THEN 0 ELSE Head(ups).Size + SumOfSizes(Tail(ups))
\* the writes of this call after which buf.tell() had reached the threshold
CurFullWrites ==
    SelectSeq(CurLog, LAMBDA e : e.k = "write" /\ e.tell >= PART_SIZE)
\* every part write_events was to upload was accepted, and the last one is sent
AllPartsSent ==
    /\ wpc \in {"complete", "returned"}
    /\ \A i \in 1..Len(CurUploads) : CurUploads[i].ok

C15_SessionEndsWithItsCall ==
    /\ wpc = "returned" =>
         /\ Len(CurCreates) = 1 /\ CurCreates[1].ok
         /\ Len(CurCompletes) = 1 /\ CurCompletes[1].ok
         /\ CurAborts = <<>>
    /\ (wpc = "failed" /\ CurCreates[1].ok) =>
         /\ Len(CurCreates) = 1
         /\ Len(CurAborts) = 1 /\ IsS3(trace[Len(trace)], "abort")
         /\ \A i \in 1..Len(CurCompletes) : ~CurCompletes[i].ok
         /\ raised # "none" /\ ~returned
    /\ (wpc = "failed" /\ ~CurCreates[1].ok) => Len(CurS3) = 1
    /\ \A i \in 1..Len(CurS3) :
         /\ CurS3[i].UploadId = CurCreates[1].UploadId
         /\ i > 1 => (CurS3[1].ok /\ ~IsS3(CurS3[i], "create"))
    /\ CurS3 # <<>> => IsS3(CurS3[1], "create")
    /\ wpc \in {"loop", "complete", "abort", "returned"} =>
         upload_id = CurCreates[1].UploadId
C15_Witness ==
    /\ NumWrites = 2 /\ wpc = "failed"
    /\ trace[CallStart].prev = "returned"
    /\ CurCreates[1].ok /\ CurCreates[1].UploadId = NewUploadId
    /\ Len(CurUploads) >= 1
    /\ Len(CurAborts) = 1 /\ CurAborts[1].UploadId = upload_id
    /\ Len(CreatesSoFar) = 2

\* C21: against a server that answers every request and rate-limits only
\* finitely often, with a consumer that keeps iterating, fetch_events ends
\* (it is exhausted or it raises), and it never receives more than
\* max(1, max_fetch_pages) page responses.
C21_FetchTerminatesWithinPageBudget ==
    /\ [](Len(Pages) <= Max(1, max_pages))
    /\ <>(gpc \in {"done", "raised"})
C21_Witness ==
    /\ gpc = "done" /\ stop = "pages"
    /\ max_pages = 3 /\ Len(Pages) = 3
    /\ \E i \in 1..Len(Gets) : Is429(Gets[i])

\* C22: once the time since the start of the fetch has reached
\* max_fetch_duration_seconds, no further request is issued: every step
\* that issues a request other than the first happens while the clock is
\* below the budget.  (The code pauses for wait_time after it has tested the
\* budget, and it retries a 429 without testing it.)
C22_NoRequestOnceBudgetReached ==
    [][(NumGets' = NumGets + 1 /\ NumGets > 0) => clock < max_duration_seconds]_vars

\* the pause the server asked for with the page just processed
PacingSleep == [k |-> "sleep", why |-> "wait_time", secs |-> wait_time]

\* C23: in the step that finishes a page (it counts the page), the fetch
\* pauses for wait_time seconds exactly when none of the three stop
\* conditions applies to the page and wait_time > 0, and then goes on to the
\* next request; when a stop condition applies it ends without pausing; and
\* an empty result with wait_time > 0 is no natural end: the fetch goes on
\* unless a budget is used up.
C23_PacesOnlyWhenGoingOn ==
    [][page_count' = page_count + 1 =>
         LET natural == events = <<>> /\ wait_time = 0
             budget  == \/ page_count' >= max_pages
                        \/ elapsed' >= max_duration_seconds
             stops   == natural \/ budget
         IN  /\ trace' = Append(trace, PacingSleep) <=> (~stops /\ wait_time > 0)
             /\ trace' # Append(trace, PacingSleep) => trace' = trace
             /\ clock' = elapsed' + (IF trace' = trace THEN 0 ELSE wait_time)
             /\ stops <=> gpc' = "done"
             /\ ~stops <=> gpc' = "request"
             /\ (events = <<>> /\ wait_time > 0) =>
                   /\ stop' # "natural"
                   /\ ~budget => gpc' = "request"]_vars
\* an empty page with wait_time > 0 was followed by the pause and a request
C23_Witness ==
    /\ Len(trace) >= 3
    /\ IsPage(trace[Len(trace) - 2])
    /\ trace[Len(trace) - 2].resp.result = <<>>
    /\ trace[Len(trace) - 1] = [k |-> "sleep", why |-> "wait_time", secs |-> 2]
    /\ trace[Len(trace)].k = "get"

\* the records of the current page not yet handed to the consumer
Unyielded == IF gpc = "yielding" THEN SubSeq(events, pos, Len(events)) ELSE <<>>

\* C24: a request is issued only when every record of every page received
\* before it has been yielded; the step that counts a page and decides
\* whether to stop is taken only when all the page's records have been
\* yielded; and the generator holds records of one page only: what the
\* pages delivered is what was yielded followed by the rest of the current
\* page.
C24_OnePageInFlight ==
    /\ [](\A i \in 1..Len(trace) :
             trace[i].k = "get" =>
                 Flatten(PageResultsBefore(i - 1))
                   = [j \in 1..Len(OfKind(SubSeq(trace, 1, i), "yield")) |->
                         OfKind(SubSeq(trace, 1, i), "yield")[j].rec])
    /\ [](Flatten(PageResults) = Yielded \o Unyielded)
    /\ [][(page_count' # page_count \/ stop' # stop \/ NumGets' # NumGets)
             => Yielded = Flatten(PageResults)]_vars
\* a second request went out after both records of the first page, and the
\* second page is half handed over
C24_Witness ==
    /\ Len(Pages) = 2 /\ Len(Pages[1].resp.result) = 2
    /\ gpc = "yielding" /\ Len(events) = 2 /\ pos = 2
    /\ Len(Yielded) = 3

\* C25: in a write_events call every part that is followed by another part
\* was uploaded right after a record's write had taken buf.tell() to the
\* threshold or beyond, and its size (the closed stream) is above the
\* threshold and never equal to it; and a part below the threshold is
\* followed by no other part.
C25_OnlyLastPartBelowThreshold ==
    \A i \in 1..Len(CurLog) :
        IsS3(CurLog[i], "upload_part") =>
            /\ (\E j \in (i + 1)..Len(CurLog) : IsS3(CurLog[j], "upload_part")) =>
                   /\ i > 1
                   /\ CurLog[i - 1].k = "write"
                   /\ CurLog[i - 1].tell >= PART_SIZE
                   /\ CurLog[i].Size >= SizeAtClose(CurLog[i - 1].tell, MinDeflateTail)
                   /\ CurLog[i].Size >= PART_SIZE
                   /\ CurLog[i].Size # PART_SIZE
            /\ CurLog[i].Size < PART_SIZE =>
                   \A j \in (i + 1)..Len(CurLog) : ~IsS3(CurLog[j], "upload_part")
\* two parts cut with buf.tell() exactly on the threshold, each closed above
\* it, and then the last part
C25_Witness ==
    /\ wpc = "returned" /\ Len(CurUploads) = 3
    /\ PART_SIZE = GzipHeaderLen
    /\ CurUploads[1].Size > PART_SIZE
    /\ CurUploads[2].Size > PART_SIZE
    /\ Len(RecordsIn(CurUploads[3].Body)) = 0
    /\ \E i \in 1..Len(CurLog) : CurLog[i].k = "write" /\ CurLog[i].tell = PART_SIZE

\* the write_events call has ended (it returned or it raised)
CallEnded == wpc \in {"returned", "failed"}
\* the storage calls s3 of a write_events call, with ups the upload_part
\* calls among them, are a create, then upload_part calls numbered
\* 1, 2, 3, ..., and no upload_part follows a failed upload_part, a complete
\* or an abort
UploadsInOrderNoRetry(s3, ups) ==
    /\ s3 # <<>> => IsS3(s3[1], "create")
    /\ \A i \in 2..Len(s3) : ~IsS3(s3[i], "create")
    /\ \A i \in 1..Len(ups) : ups[i].PartNumber = i
    /\ \A j \in 2..Len(s3) :
         IsS3(s3[j], "upload_part") =>
             \A i \in 1..(j - 1) :
                 s3[i].ok /\ s3[i].op \in {"create", "upload_part"}

\* C26 (as stated): a call that created its session issues create, the
\* upload_part calls 1, 2, 3, ... each once, and then exactly one call that is
\* a complete or an abort; no upload_part follows a failed upload_part, a
\* complete or an abort.
C26_ExactlyOneOfCompleteOrAbort_Original ==
    (CallEnded /\ CurCreates # <<>> /\ CurCreates[1].ok) =>
        /\ UploadsInOrderNoRetry(CurS3, CurUploads)
        /\ Len(CurCompletes) + Len(CurAborts) = 1
        /\ CurS3[Len(CurS3)].op \in {"complete", "abort"}
\* C26 amended: no call is repeated and the order is create, upload_part
\* 1, 2, 3, ..., then complete (issued once, and only when every upload
\* succeeded), then abort (issued once, as the last call, exactly when the
\* session exists and the input, an upload or the completion failed); a
\* failed completion is therefore followed by the abort, so both calls
\* appear; a failed create is followed by no call; nothing follows a
\* completion that succeeded.
C26_ProtocolOrderNoRetry ==
    LET s3 == CurS3
        n == Len(s3)
        ups == SelectSeq(s3, LAMBDA e : e.op = "upload_part")
    IN  /\ UploadsInOrderNoRetry(s3, ups)
        /\ \A i \in 1..n :
             /\ (IsS3(s3[i], "create") /\ ~s3[i].ok) => i = n
             /\ IsS3(s3[i], "complete") =>
                  /\ \A j \in 1..(i - 1) : s3[j].ok
                  /\ Len(ups) = i - 2
                  /\ s3[i].ok => i = n
                  /\ ~s3[i].ok => i >= n - 1
             /\ IsS3(s3[i], "abort") => i = n /\ i > 1
             /\ (~s3[i].ok /\ i < n) => i + 1 = n /\ IsS3(s3[i + 1], "abort")
        /\ (CallEnded /\ n > 0 /\ s3[1].ok) =>
             /\ s3[n].op \in {"complete", "abort"}
             /\ IsS3(s3[n], "complete") <=> wpc = "returned"
             /\ IsS3(s3[n], "abort") <=> wpc = "failed"
\* the completion failed and the abort followed: both calls were issued
C26_Witness ==
    /\ wpc = "failed" /\ Len(CurUploads) = 2
    /\ Len(CurS3) = 5
    /\ IsS3(CurS3[4], "complete") /\ ~CurS3[4].ok
    /\ IsS3(CurS3[5], "abort")

\* DummyS3.completed after the calls the storage accepted so far: the one
\* flag of the storage, set by complete_multipart_upload and cleared by
\* abort_multipart_upload, whatever session the call names
completed ==
    LET acc == {i \in 1..Len(trace) :
                   /\ trace[i].k = "s3" /\ trace[i].ok
                   /\ trace[i].op \in {"complete", "abort"}}
    IN  /\ acc # {}
        /\ trace[CHOOSE i \in acc : \A j \in acc : j <= i].op = "complete"

\* what the accepted storage calls of this write_events call did with the
\* session the call opened
CallOutcome ==
    IF \E i \in 1..Len(CurCompletes) : CurCompletes[i].ok THEN "completed"
    ELSE IF \E i \in 1..Len(CurAborts) : CurAborts[i].ok THEN "aborted"
    ELSE IF CurCreates # <<>> /\ CurCreates[1].ok THEN "open"
    ELSE "none"

\* C27: when the abort call of a write_events call failed, the call raises
\* the abort's exception and not the one it was handling, it does not return
\* a key, and its session stays open in the storage: neither completed (no
\* object is visible) nor aborted.
C27_AbortFailureMasksOriginal ==
    (CurAborts # <<>> /\ ~CurAborts[1].ok) =>
        /\ wpc = "failed" /\ ~returned
        /\ wexc # "none"
        /\ raised = "AbortError" /\ raised # wexc
        /\ Len(CurAborts) = 1 /\ IsS3(trace[Len(trace)], "abort")
        /\ CurAborts[1].UploadId = upload_id
        /\ CallOutcome = "open"
        /\ CallStart = 0 => ~completed
\* an upload_part failed after one part was stored, and the abort failed too
C27_Witness ==
    /\ wpc = "failed" /\ wexc = "UploadPartError" /\ raised = "AbortError"
    /\ Len(parts) = 1 /\ Len(CurUploads) = 2 /\ ~CurUploads[2].ok
    /\ ~CurAborts[1].ok
    /\ CallOutcome = "open" /\ ~completed

\* the fetch received a fatal HTTP status
FatalStatusReceived == \E i \in 1..Len(trace) : IsErrorStatus(trace[i])
\* the records stored by the upload_part calls, in part order
RecordsStored == Flatten([i \in 1..Len(CurUploads) |-> RecordsIn(CurUploads[i].Body)])

\* C28: in run (write_events consuming fetch_events), with a storage that
\* accepts every call: once the fetch has received a fatal HTTP status, no
\* completion call is ever issued and the call does not return; when it has
\* ended, the session was aborted (after whatever parts were uploaded), no
\* object is visible and the caller of run observes the HTTP error.  When
\* the fetch was cut short by the page budget, the time budget or a
\* transport failure, no abort is issued and nothing is raised; when the call
\* has ended it returned, the session is completed and the parts hold
\* exactly the records yielded so far.
C28_FatalAbortsTruncationCompletes ==
    StorageAllOk =>
        /\ FatalStatusReceived =>
             /\ gpc = "raised" /\ gerr = "HTTPError"
             /\ wpc \in {"loop", "abort", "failed"}
             /\ CurCompletes = <<>> /\ ~returned
             /\ wpc = "failed" =>
                  /\ raised = "HTTPError"
                  /\ Len(CurAborts) = 1 /\ IsS3(trace[Len(trace)], "abort")
                  /\ CallOutcome = "aborted" /\ ~completed
        /\ (gpc = "done" /\ stop \in {"pages", "duration", "transport"}) =>
             /\ wpc \in {"loop", "complete", "returned"}
             /\ CurAborts = <<>> /\ raised = "none"
             /\ wpc = "returned" =>
                  /\ returned
                  /\ Len(CurCompletes) = 1
                  /\ CallOutcome = "completed" /\ completed
                  /\ RecordsStored = Yielded
\* the second request was answered by a fatal status after the first page's
\* record had been uploaded as a part; the session was aborted
C28_Witness ==
    /\ wpc = "failed" /\ raised = "HTTPError" /\ StorageAllOk
    /\ Len(Gets) = 2 /\ IsPage(Gets[1]) /\ IsErrorStatus(Gets[2])
    /\ Len(CurUploads) = 1 /\ RecordsIn(CurUploads[1].Body) = Yielded
    /\ Len(Yielded) = 1
    /\ CallOutcome = "aborted" /\ ~completed

\* the key a write_events call works on, and returns when it succeeds
CurKey == CurCreates[1].Key

\* C29: in every write_events call a completion call that succeeded is the
\* call's last storage call: no abort follows it in that call, nothing is
\* raised, and the call returns the key the session was created with; an
\* abort that comes after a successful completion belongs to a later call,
\* which opened a session of its own.
C29_NoAbortAfterSuccessfulComplete ==
    /\ \A i \in 1..Len(CurS3) :
         (IsS3(CurS3[i], "complete") /\ CurS3[i].ok) =>
             /\ i = Len(CurS3)
             /\ CurAborts = <<>>
             /\ wpc = "returned" /\ returned /\ raised = "none" /\ wexc = "none"
             /\ CurS3[i].UploadId = CurCreates[1].UploadId
             /\ CurKey = KeyOf(Prefix, endpoint, CurCreates[1].now)
    /\ \A i \in 1..Len(trace) : \A j \in (i + 1)..Len(trace) :
         (IsS3(trace[i], "complete") /\ trace[i].ok /\ IsS3(trace[j], "abort")) =>
             \E m \in (i + 1)..(j - 2) :
                 /\ trace[m].k = "write_events"
                 /\ \E c \in (m + 1)..(j - 1) : IsS3(trace[c], "create") /\ trace[c].ok
\* a call completed its session and returned; the next call, on the same
\* writer, failed and aborted its own session
C29_Witness ==
    /\ NumWrites = 2 /\ wpc = "failed"
    /\ trace[CallStart].prev = "returned"
    /\ \E i \in 1..CallStart : IsS3(trace[i], "complete") /\ trace[i].ok
    /\ CallOutcome = "aborted" /\ ~completed
    /\ Len(CurAborts) = 1

\* the create calls (places in the log) whose write_events call went on to
\* a completion that succeeded
CompletedCreates ==
    {c \in 1..Len(trace) :
        /\ IsS3(trace[c], "create")
        /\ \E d \in (c + 1)..Len(trace) :
             /\ IsS3(trace[d], "complete") /\ trace[d].ok
             /\ \A m \in (c + 1)..(d - 1) : ~IsS3(trace[m], "create")}

\* C30: two write_events calls with the same prefix and category never
\* complete onto the same key: the calls that completed so far created their
\* sessions with pairwise different keys.  (The key is made from the UTC
\* time cut to the second, so two calls within one second get the same key.)
C30_DistinctKeysPerInvocation ==
    \A i \in CompletedCreates : \A j \in CompletedCreates :
        i # j => trace[i].Key # trace[j].Key

\* C31: run uses the configured window only when since_minutes is None; for
\* every integer the caller gives, 0 included, the start handed to
\* fetch_events is the current time minus exactly that many minutes.  (The
\* code writes since_minutes or cfg.fetch_window_minutes, and 0 is falsy.)
C31_WindowOnlyWhenNone ==
    (trace # <<>> /\ trace[1].k = "run" /\ wpc = "start") =>
        LET arg == trace[1].since_minutes
        IN  /\ ~arg.given => since = trace[1].now - 60 * trace[1].fetch_window_minutes
            /\ arg.given => since = trace[1].now - 60 * arg.minutes
====
